---------------------------- MODULE Spec2Model ----------------------------
(***************************************************************************)
(* A state-machine model of the synthetic FITS image generator             *)
(* (application/data-simulator/fits_generator.py, class                    *)
(* AstronomicalFITSGenerator): construction, generate_fits_file with its   *)
(* stages, and generate_batch.                                             *)
(*                                                                         *)
(* Numbers.  Python floats are modelled by exact rationals <<n, d>> in     *)
(* lowest terms with d > 0.  The float functions the code calls (10**x,    *)
(* exp, sqrt, the normal/exponential/Poisson variates) are evaluated on a  *)
(* coarse grid that is stated at each definition.                          *)
(*                                                                         *)
(* Random source.  numpy's RandomState is modelled as a deterministic      *)
(* generator with an integer state: seeding fixes the state, each draw     *)
(* advances it once and returns a variate computed from the new state.     *)
(***************************************************************************)
EXTENDS Integers, Sequences, FiniteSets, TLC

\* ------------------------------------------------------------------------
\* Bounds of the exploration
\* ------------------------------------------------------------------------

\* integer seeds a configuration file may set: 0..MaxSeed
MaxSeed == 1
\* generator instances the driver constructs, one after the other
MaxInstances == 2
\* image generations (generate_fits_file calls, direct or inside a batch)
\* the driver asks of one instance
MaxImages == 2

\* ------------------------------------------------------------------------
\* Exact rational arithmetic
\* ------------------------------------------------------------------------

Abs(a) == IF a < 0 THEN -a ELSE a

Max(a, b) == IF a >= b THEN a ELSE b

Min(a, b) == IF a <= b THEN a ELSE b

RECURSIVE GCD(_, _)
GCD(a, b) == IF b = 0 THEN a ELSE GCD(b, a % b)

\* the rational n/d in lowest terms, d > 0
Rat(n, d) ==
    LET g == GCD(Abs(n), Abs(d))
        s == IF d < 0 THEN -1 ELSE 1
    IN  <<(s * n) \div g, (s * d) \div g>>

R(n) == <<n, 1>>

\* the float nan: what 0.0/0.0 and inf/inf evaluate to in numpy arrays
NaN == <<0, 0>>

IsNaN(p) == p[2] = 0

LCM(a, b) == (a \div GCD(a, b)) * b

\* p + q; nan if either is nan
RAdd(p, q) ==
    IF IsNaN(p) \/ IsNaN(q) THEN NaN
    ELSE LET l == LCM(p[2], q[2])
         IN  Rat(p[1] * (l \div p[2]) + q[1] * (l \div q[2]), l)

RNeg(p) == <<-p[1], p[2]>>

RSub(p, q) == RAdd(p, RNeg(q))

RMul(p, q) ==
    LET g1 == GCD(Abs(p[1]), q[2])
        g2 == GCD(Abs(q[1]), p[2])
        a  == IF g1 = 0 THEN 1 ELSE g1
        b  == IF g2 = 0 THEN 1 ELSE g2
    IN  Rat((p[1] \div a) * (q[1] \div b), (p[2] \div b) * (q[2] \div a))

\* q is not zero
RDiv(p, q) == RMul(p, Rat(q[2], q[1]))

RLt(p, q) ==
    LET l == LCM(p[2], q[2])
    IN  p[1] * (l \div p[2]) < q[1] * (l \div q[2])

RLe(p, q) == p = q \/ RLt(p, q)

RMax(p, q) == IF RLt(p, q) THEN q ELSE p

RMin(p, q) == IF RLt(q, p) THEN q ELSE p

\* Python int(x): truncation toward zero
Trunc(p) == IF p[1] >= 0 THEN p[1] \div p[2] ELSE -((-p[1]) \div p[2])

\* round to the nearest integer, halves up
Round(p) == (2 * p[1] + p[2]) \div (2 * p[2])

\* the least k with k * k >= n, for n >= 0
RECURSIVE SqrtUp(_, _)
SqrtUp(n, k) == IF k * k >= n THEN k ELSE SqrtUp(n, k + 1)

RECURSIVE Pow10(_)
Pow10(k) == IF k <= 0 THEN 1 ELSE 10 * Pow10(k - 1)


\* Python's None and a present value
None == [some |-> FALSE, v |-> 0]

Some(x) == [some |-> TRUE, v |-> x]

NoneR == [some |-> FALSE, v |-> <<0, 1>>]

\* ------------------------------------------------------------------------
\* The random source (numpy.random.RandomState)
\* ------------------------------------------------------------------------

\* the states RandomState(None) may start in: numpy seeds it from the
\* operating system's entropy
EntropyStates == {77, 202}

\* a variant of seeding that ignores the seed: every construction starts
\* from entropy
SeedStatesUnseeded(seed) == EntropyStates

\* RandomState(seed): the states construction may leave the generator in
SeedStates(seed) ==
    IF ~seed.some THEN EntropyStates ELSE {(97 * seed.v + 13) % 256}

\* one draw advances the state once
RngNext(s) == (s + 1) % 256

\* the state after n draws
Adv(s, n) == (s + n) % 256

\* the 8-bit word a draw returns in state s: the state scrambled by the
\* permutation x -> x (2x + 1) mod 256
Word(s) == (s * (2 * s + 1)) % 256

\* a uniform variate in [0, 1), on a grid of quarters
U01(s) == Rat(Word(s) \div 64, 4)

\* random_state.uniform(lo, hi) = lo + (hi - lo) * u; numpy does not
\* require lo <= hi
Uniform(lo, hi, s) == RAdd(lo, RMul(RSub(hi, lo), U01(s)))

\* a standard normal deviate on the grid -4, -2, -1, 0, 0, 1, 2, 4
NormalDev(s) == <<-4, -2, -1, 0, 0, 1, 2, 4>>[((Word(s) \div 8) % 8) + 1]

\* random_state.normal(mu, sd)
Normal(mu, sd, s) == RAdd(mu, RMul(sd, R(NormalDev(s))))

\* a standard exponential deviate on the grid 0, 1/3, 2/3
ExpDev(s) == Rat((Word(s) \div 4) % 3, 3)

\* random_state.exponential(scale)
Exponential(scale, s) == RMul(scale, ExpDev(s))

\* random_state.poisson(lam) raises ValueError for lam < 0
PoissonRaises(lam) == lam[1] < 0

\* a variant of the Poisson draw that is never 0, not even for lam = 0
PoissonAtLeastOne(lam, s) ==
    Max(1, Round(lam) + ((Word(s) % 3) - 1) * SqrtUp((lam[1] + lam[2] - 1) \div lam[2], 0))

\* random_state.poisson(lam) for lam >= 0: a non-negative integer, 0 when
\* lam = 0; otherwise the mean or the mean +/- one standard deviation
\* (rounded), floored at 0
Poisson(lam, s) ==
    IF lam[1] = 0 THEN 0
    ELSE Max(0, Round(lam) + ((Word(s) % 3) - 1) * SqrtUp((lam[1] + lam[2] - 1) \div lam[2], 0))

\* random_state.randint(lo, hi): an integer in lo .. hi-1 (hi > lo)
RandInt(lo, hi, s) == lo + (Word(s) * (hi - lo)) \div 256

\* random_state.choice(options): the index (from 1) of the chosen option
ChoiceIndex(n, s) == 1 + (Word(s) * n) \div 256

\* ------------------------------------------------------------------------
\* Configuration
\* ------------------------------------------------------------------------

\* default_config of _load_config; rationals for the float entries
DefaultConfig ==
    [ image_size       |-> <<2048, 2048>>,
      pixel_scale      |-> Rat(1, 4),
      gain             |-> Rat(3, 2),
      read_noise       |-> R(5),
      sky_background   |-> R(1000),
      saturation_level |-> 65000,
      star_density     |-> R(100),
      galaxy_density   |-> R(10),
      cosmic_ray_rate  |-> Rat(1, 10),
      s3_bucket        |-> "None",
      random_seed      |-> None ]

\* default_config.update(user_config)
LoadConfig(user) ==
    [k \in DOMAIN DefaultConfig |->
        IF k \in DOMAIN user THEN user[k] ELSE DefaultConfig[k]]

\* ------------------------------------------------------------------------
\* Magnitudes and fluxes
\* ------------------------------------------------------------------------

\* 10 ** (t/10) for an integer t: the integer power of ten exactly, times
\* the two-digit mantissa 10 ** (r/10), r = t mod 10
Pow10Tenths(t) ==
    LET q == t \div 10
        m == <<10, 13, 16, 20, 25, 32, 40, 50, 63, 79>>[(t % 10) + 1]
    IN  IF q >= 0 THEN Rat(m * Pow10(q), 10) ELSE Rat(m, 10 * Pow10(-q))

\* a variant of the conversion with the sign of the exponent reversed
MagnitudeToFluxReversed(magnitude) ==
    LET zeropoint == R(25)
        flux == Pow10Tenths(Round(RMul(R(10), RDiv(RSub(magnitude, zeropoint), Rat(5, 2)))))
    IN  RMax(R(1), flux)

\* a variant of the conversion without the floor of one electron
MagnitudeToFluxNoFloor(magnitude) ==
    LET zeropoint == R(25)
    IN  Pow10Tenths(Round(RMul(R(10), RDiv(RSub(zeropoint, magnitude), Rat(5, 2)))))

\* _magnitude_to_flux: 10 ** ((zeropoint - magnitude) / 2.5), at least 1.0;
\* the exponent is taken to the nearest tenth
MagnitudeToFlux(magnitude) ==
    LET zeropoint == R(25)
        flux == Pow10Tenths(Round(RMul(R(10), RDiv(RSub(zeropoint, magnitude), Rat(5, 2)))))
    IN  RMax(R(1), flux)

\* _generate_stellar_magnitude: draws s1 (random()) and s2 (uniform)
StellarMagnitude(s1, s2) ==
    IF RLt(U01(s1), Rat(1, 10))
    THEN Uniform(R(12), R(18), s2)
    ELSE Uniform(R(18), R(25), s2)

\* _generate_galaxy_magnitude
GalaxyMagnitude(s) == Uniform(R(18), R(27), s)

\* ------------------------------------------------------------------------
\* Profiles and stamps
\* ------------------------------------------------------------------------

\* 2 ** (-k) in sixteenths, to the nearest sixteenth (halves to even): the
\* resolution profile values are kept at, relative to the profile's peak
Ladder(k) == IF k <= 0 THEN 16 ELSE IF k >= 5 THEN 0 ELSE <<8, 4, 2, 1>>[k]

\* a variant of the stamp size without the step that makes it odd
StampSizeTruncated(sixS) == Trunc(sixS) + 1

\* size = int(6 * s) + 1, made odd
StampSize(sixS) ==
    LET size == Trunc(sixS) + 1
    IN  IF size % 2 = 0 THEN size + 1 ELSE size

\* np.ogrid[:size, :size]: the cells <<row, column>> of a stamp
Cells(size) == (0 .. size - 1) \X (0 .. size - 1)

\* 6 * sigma, sigma = fwhm / (2 * sqrt(2 * ln 2)) = fwhm / 2.35482
SixSigma(fwhm) == RMul(fwhm, Rat(2548, 1000))

\* exp(-d2 / (2 sigma^2)) = 2 ** (-4 d2 / fwhm^2), in sixteenths
GaussWeight(d2, fwhm) == Ladder(Round(RDiv(R(4 * d2), RMul(fwhm, fwhm))))

\* np.sum of a size x size table of weights, row by row
RECURSIVE SumRow(_, _, _)
SumRow(w, r, c) == IF c < 0 THEN 0 ELSE w[<<r, c>>] + SumRow(w, r, c - 1)

RECURSIVE SumRows(_, _, _)
SumRows(w, r, size) ==
    IF r < 0 THEN 0 ELSE SumRow(w, r, size - 1) + SumRows(w, r - 1, size)

\* a variant of the normalisation that scales by the peak weight, not by
\* the sum of the weights
NormaliseByPeak(w, size, flux) ==
    [c \in DOMAIN w |-> RMul(Rat(w[c], 16), flux)]

\* psf = psf / np.sum(psf) * flux
Normalise(w, size, flux) ==
    LET total == SumRows(w, size - 1, size)
    IN  [c \in DOMAIN w |-> RMul(Rat(w[c], total), flux)]

\* the stellar PSF stamp of _add_stellar_psf. With fwhm = 0, sigma is 0,
\* the stamp is the one cell exp(-0/0) = nan, and nan / nan * flux = nan;
\* no statement of the function raises. With fwhm < 0 the size is 1 (one
\* cell holding the whole flux) or negative (np.ogrid[:size] is empty)
StarStamp(flux, fwhm) ==
    LET size   == StampSize(SixSigma(fwhm))
        center == size \div 2
        w == [c \in Cells(size) |->
                GaussWeight((c[2] - center) * (c[2] - center)
                            + (c[1] - center) * (c[1] - center), fwhm)]
    IN  IF fwhm[1] = 0 THEN [c \in Cells(size) |-> NaN]
        ELSE Normalise(w, size, flux)

\* cos and sin of a position angle of k quarter turns (0 or 90 degrees)
CosPA(k) == <<R(1), R(0)>>[k + 1]

SinPA(k) == <<R(0), R(1)>>[k + 1]

\* the exponential profile exp(-1.678 (r / r_eff)) = 2 ** (-2.4208 r/r_eff)
\* in sixteenths: the exponent rounds to the number of j in 1..5 with
\* 2.4208 r / r_eff >= j - 1/2, that is 5.86 r^2 >= ((2j-1)/2)^2 r_eff^2
Sersic1Weight(r2, r_eff) ==
    Ladder(Cardinality({j \in 1 .. 5 :
        RLe(RMul(Rat((2 * j - 1) * (2 * j - 1), 4), RMul(r_eff, r_eff)),
            RMul(Rat(586, 100), r2))}))

\* the de Vaucouleurs profile exp(-7.669 ((r / r_eff) ** 0.25 - 1)),
\* relative to its peak at r = 0: 2 ** (-11.064 (r/r_eff) ** 0.25), in
\* sixteenths; it is below 1/32 of the peak once (r/r_eff)^2 >= 1/1335
Sersic4Weight(r2, r_eff) ==
    IF r2[1] = 0 THEN 16
    ELSE IF RLe(RMul(r_eff, r_eff), RMul(R(1335), r2)) THEN 0
    ELSE 1

\* the galaxy stamp of _add_galaxy_profile. With r_eff = 0 the one cell of
\* the stamp holds r_ellipse / r_eff = 0/0 = nan; with axis_ratio = 0 the
\* centre row holds y_rot / axis_ratio = 0/0 = nan, so np.sum(profile) and
\* every normalised cell are nan; no statement of the function raises
GalaxyStamp(flux, r_eff, axis_ratio, pa, sersic_n) ==
    LET size   == StampSize(RMul(R(6), r_eff))
        center == size \div 2
        xr(c) == RAdd(RMul(R(c[2] - center), CosPA(pa)), RMul(R(c[1] - center), SinPA(pa)))
        yr(c) == RAdd(RNeg(RMul(R(c[2] - center), SinPA(pa))), RMul(R(c[1] - center), CosPA(pa)))
        r2(c) == RAdd(RMul(xr(c), xr(c)),
                      RMul(RDiv(yr(c), axis_ratio), RDiv(yr(c), axis_ratio)))
        w == [c \in Cells(size) |->
                IF sersic_n = 1 THEN Sersic1Weight(r2(c), r_eff)
                ELSE Sersic4Weight(r2(c), r_eff)]
    IN  IF r_eff[1] = 0 \/ axis_ratio[1] = 0 THEN [c \in Cells(size) |-> NaN]
        ELSE Normalise(w, size, flux)


\* ------------------------------------------------------------------------
\* The canvas
\* ------------------------------------------------------------------------

\* the pixels <<row, column>> of an array of the given shape
Pixels(shape) == (0 .. shape[1] - 1) \X (0 .. shape[2] - 1)

\* before np.zeros has run there is no canvas
NoImage == [shape |-> <<0, 0>>, px |-> << >>]

\* np.zeros((height, width))
Zeros(height, width) ==
    [shape |-> <<height, width>>, px |-> [p \in Pixels(<<height, width>>) |-> R(0)]]

\* the position of pixel p in row-major order, from 1
RowMajor(shape, p) == p[1] * shape[2] + p[2] + 1

\* image += random_state.poisson(sky_level, size=(height, width))
AddSky(image, sky_level, s) ==
    [image EXCEPT !.px = [p \in DOMAIN image.px |->
        RAdd(image.px[p], R(Poisson(sky_level, Adv(s, RowMajor(image.shape, p)))))]]

\* _add_noise: image += random_state.normal(0, read_noise, size=image.shape)
AddNoise(image, read_noise, s) ==
    [image EXCEPT !.px = [p \in DOMAIN image.px |->
        RAdd(image.px[p], Normal(R(0), read_noise, Adv(s, RowMajor(image.shape, p))))]]

\* image = image / gain
ToADU(image, gain) ==
    [image EXCEPT !.px = [p \in DOMAIN image.px |-> RDiv(image.px[p], gain)]]

\* a variant of the clip that keeps the ceiling and drops the floor
ClipCeilingOnly(image, level) ==
    [image EXCEPT !.px = [p \in DOMAIN image.px |-> RMin(image.px[p], R(level))]]

\* a variant of the clip that keeps the floor and drops the ceiling
ClipFloorOnly(image, level) ==
    [image EXCEPT !.px = [p \in DOMAIN image.px |-> RMax(image.px[p], R(0))]]

\* np.clip(image, 0, saturation_level) = minimum(maximum(image, 0), level)
Clip(image, level) ==
    [image EXCEPT !.px = [p \in DOMAIN image.px |->
        RMin(RMax(image.px[p], R(0)), R(level))]]

\* image.astype(np.uint16): the integer part, modulo 2^16
AsUint16(image) ==
    [image EXCEPT !.px = [p \in DOMAIN image.px |-> Trunc(image.px[p]) % 65536]]

\* image.astype(np.uint16) where the C cast of a value outside 0 .. 65535,
\* which C leaves undefined, saturates instead of wrapping
AsUint16Saturating(image) ==
    [image EXCEPT !.px = [p \in DOMAIN image.px |->
        Min(65535, Max(0, Trunc(image.px[p])))]]

\* field_area of _add_stars and _add_galaxies, in square arcminutes
FieldArea(shape, cfg) ==
    LET pixel_scale == RDiv(cfg.pixel_scale, R(3600))
    IN  RMul(RMul(RMul(R(shape[1]), pixel_scale), RMul(R(shape[2]), pixel_scale)), R(3600))

\* the slices "Handle boundary conditions" computes in _add_stellar_psf
StarBox(shape, x, y, size) ==
    LET center  == size \div 2
        x_start == Trunc(RSub(x, R(center)))
        y_start == Trunc(RSub(y, R(center)))
        x_end   == x_start + size
        y_end   == y_start + size
        img_x_start == Max(0, x_start)
        img_y_start == Max(0, y_start)
        img_x_end   == Min(shape[2], x_end)
        img_y_end   == Min(shape[1], y_end)
        psf_x_start == img_x_start - x_start
        psf_y_start == img_y_start - y_start
    IN  [ x_start |-> x_start, y_start |-> y_start,
          img_x_start |-> img_x_start, img_x_end |-> img_x_end,
          img_y_start |-> img_y_start, img_y_end |-> img_y_end,
          psf_x_start |-> psf_x_start, psf_y_start |-> psf_y_start,
          psf_x_end |-> psf_x_start + (img_x_end - img_x_start),
          psf_y_end |-> psf_y_start + (img_y_end - img_y_start) ]

\* a variant of the galaxy slices that rounds the stamp's corner to the
\* nearest pixel instead of truncating it
GalaxyBoxRounded(shape, x, y, size) ==
    LET center  == size \div 2
        x_start == Round(RSub(x, R(center)))
        y_start == Round(RSub(y, R(center)))
        x_end   == x_start + size
        y_end   == y_start + size
        img_x_start == Max(0, x_start)
        img_y_start == Max(0, y_start)
        img_x_end   == Min(shape[2], x_end)
        img_y_end   == Min(shape[1], y_end)
        psf_x_start == img_x_start - x_start
        psf_y_start == img_y_start - y_start
    IN  [ x_start |-> x_start, y_start |-> y_start,
          img_x_start |-> img_x_start, img_x_end |-> img_x_end,
          img_y_start |-> img_y_start, img_y_end |-> img_y_end,
          psf_x_start |-> psf_x_start, psf_y_start |-> psf_y_start,
          psf_x_end |-> psf_x_start + (img_x_end - img_x_start),
          psf_y_end |-> psf_y_start + (img_y_end - img_y_start) ]

\* the same slices, as _add_galaxy_profile computes them
GalaxyBox(shape, x, y, size) ==
    LET center  == size \div 2
        x_start == Trunc(RSub(x, R(center)))
        y_start == Trunc(RSub(y, R(center)))
        x_end   == x_start + size
        y_end   == y_start + size
        img_x_start == Max(0, x_start)
        img_y_start == Max(0, y_start)
        img_x_end   == Min(shape[2], x_end)
        img_y_end   == Min(shape[1], y_end)
        psf_x_start == img_x_start - x_start
        psf_y_start == img_y_start - y_start
    IN  [ x_start |-> x_start, y_start |-> y_start,
          img_x_start |-> img_x_start, img_x_end |-> img_x_end,
          img_y_start |-> img_y_start, img_y_end |-> img_y_end,
          psf_x_start |-> psf_x_start, psf_y_start |-> psf_y_start,
          psf_x_end |-> psf_x_start + (img_x_end - img_x_start),
          psf_y_end |-> psf_y_start + (img_y_end - img_y_start) ]

\* a variant of the slice addition that takes the stamp's top-left cells
\* whatever part of the stamp overlaps the canvas
SliceAddTopLeft(image, stamp, b) ==
    IF b.img_x_end > b.img_x_start /\ b.img_y_end > b.img_y_start
    THEN [image EXCEPT !.px = [p \in DOMAIN image.px |->
            IF /\ b.img_y_start <= p[1] /\ p[1] < b.img_y_end
               /\ b.img_x_start <= p[2] /\ p[2] < b.img_x_end
            THEN RAdd(image.px[p],
                      stamp[<<p[1] - b.img_y_start, p[2] - b.img_x_start>>])
            ELSE image.px[p]]]
    ELSE image

\* image[img_y_start:img_y_end, img_x_start:img_x_end] +=
\*     stamp[psf_y_start:psf_y_end, psf_x_start:psf_x_end],
\* under the guard img_x_end > img_x_start and img_y_end > img_y_start
SliceAdd(image, stamp, b) ==
    IF b.img_x_end > b.img_x_start /\ b.img_y_end > b.img_y_start
    THEN [image EXCEPT !.px = [p \in DOMAIN image.px |->
            IF /\ b.img_y_start <= p[1] /\ p[1] < b.img_y_end
               /\ b.img_x_start <= p[2] /\ p[2] < b.img_x_end
            THEN RAdd(image.px[p],
                      stamp[<<b.psf_y_start + (p[1] - b.img_y_start),
                              b.psf_x_start + (p[2] - b.img_x_start)>>])
            ELSE image.px[p]]]
    ELSE image

\* _add_stellar_psf(image, x, y, flux, fwhm)
AddStellarPsf(image, x, y, flux, fwhm) ==
    LET size == StampSize(SixSigma(fwhm))
    IN  SliceAdd(image, StarStamp(flux, fwhm), StarBox(image.shape, x, y, size))

\* _add_galaxy_profile(image, x, y, flux, r_eff, axis_ratio, position_angle,
\* sersic_n)
AddGalaxyProfile(image, x, y, flux, r_eff, axis_ratio, pa, sersic_n) ==
    LET size == StampSize(RMul(R(6), r_eff))
    IN  SliceAdd(image, GalaxyStamp(flux, r_eff, axis_ratio, pa, sersic_n),
                 GalaxyBox(image.shape, x, y, size))

\* cos and sin of a track angle of k eighths of a turn, in thousandths
\* (cos 45 = 0.707); int(i * cos) is exact for the track lengths drawn
CosTrack(k) == <<1000, 707, 0, -707, -1000, -707, 0, 707>>[k + 1]

SinTrack(k) == <<0, 707, 1000, 707, 0, -707, -1000, -707>>[k + 1]

\* a variant of the track loop that takes the deposit away from the pixel
RECURSIVE TrackDraining(_, _, _, _, _, _, _)
TrackDraining(image, x, y, energy, length, angle, i) ==
    IF i >= length THEN image
    ELSE LET dx == Trunc(Rat(i * CosTrack(angle), 1000))
             dy == Trunc(Rat(i * SinTrack(angle), 1000))
             new_x == x + dx
             new_y == y + dy
             next ==
                IF /\ 0 <= new_x /\ new_x < image.shape[2]
                   /\ 0 <= new_y /\ new_y < image.shape[1]
                THEN [image EXCEPT !.px[<<new_y, new_x>>] =
                        RSub(@, RMul(energy, RSub(R(1), Rat(i, length))))]
                ELSE image
         IN  TrackDraining(next, x, y, energy, length, angle, i + 1)

\* a variant of the track loop without the bounds check, an index outside
\* the canvas wrapping around to the opposite edge
RECURSIVE TrackWrapping(_, _, _, _, _, _, _)
TrackWrapping(image, x, y, energy, length, angle, i) ==
    IF i >= length THEN image
    ELSE LET dx == Trunc(Rat(i * CosTrack(angle), 1000))
             dy == Trunc(Rat(i * SinTrack(angle), 1000))
             new_x == (x + dx) % image.shape[2]
             new_y == (y + dy) % image.shape[1]
             next == [image EXCEPT !.px[<<new_y, new_x>>] =
                        RAdd(@, RMul(energy, RSub(R(1), Rat(i, length))))]
         IN  TrackWrapping(next, x, y, energy, length, angle, i + 1)

\* the track loop of _add_cosmic_rays from step i on
RECURSIVE Track(_, _, _, _, _, _, _)
Track(image, x, y, energy, length, angle, i) ==
    IF i >= length THEN image
    ELSE LET dx == Trunc(Rat(i * CosTrack(angle), 1000))
             dy == Trunc(Rat(i * SinTrack(angle), 1000))
             new_x == x + dx
             new_y == y + dy
             next ==
                IF /\ 0 <= new_x /\ new_x < image.shape[2]
                   /\ 0 <= new_y /\ new_y < image.shape[1]
                THEN [image EXCEPT !.px[<<new_y, new_x>>] =
                        RAdd(@, RMul(energy, RSub(R(1), Rat(i, length))))]
                ELSE image
         IN  Track(next, x, y, energy, length, angle, i + 1)

\* a variant of the frame with both axes increasing
CreateWcsUnflipped(ra, dec, width, height, cfg) ==
    LET pixel_scale_deg == RDiv(cfg.pixel_scale, R(3600))
    IN  [ crpix |-> <<Rat(width, 2), Rat(height, 2)>>,
          crval |-> <<ra, dec>>,
          cdelt |-> <<pixel_scale_deg, pixel_scale_deg>>,
          ctype |-> <<"RA---TAN", "DEC--TAN">>,
          cunit |-> <<"deg", "deg">> ]

\* _create_wcs(ra, dec, width, height)
CreateWcs(ra, dec, width, height, cfg) ==
    LET pixel_scale_deg == RDiv(cfg.pixel_scale, R(3600))
    IN  [ crpix |-> <<Rat(width, 2), Rat(height, 2)>>,
          crval |-> <<ra, dec>>,
          cdelt |-> <<RNeg(pixel_scale_deg), pixel_scale_deg>>,
          ctype |-> <<"RA---TAN", "DEC--TAN">>,
          cunit |-> <<"deg", "deg">> ]

NoWcs ==
    [ crpix |-> <<R(0), R(0)>>, crval |-> <<R(0), R(0)>>,
      cdelt |-> <<R(0), R(0)>>, ctype |-> <<"", "">>, cunit |-> <<"", "">> ]


\* ------------------------------------------------------------------------
\* State
\* ------------------------------------------------------------------------

VARIABLES
    cfgFile,    \* what yaml.safe_load returns for the configuration file
    inst,       \* generators constructed so far
    config,     \* self.config of the live generator
    rng,        \* self.random_state of the live generator
    seeded,     \* the state RandomState(...) was constructed in
    ndraws,     \* draws made on self.random_state since construction
    nimages,    \* generate_fits_file calls begun on the live generator
    pc,         \* the statement the program is at
    req,        \* the arguments of the running generate_fits_file call
    image,      \* the canvas of the running call
    stages,     \* the stages the running call has executed, in order
    draws,      \* the stage of each draw event of the running call, in order
    entry,      \* the catalog entry or cosmic-ray event being processed
    todo,       \* iterations left in the running source loop
    added,      \* what the last stamp compositing added to the canvas
    wcs,        \* the frame _create_wcs returned
    exc,        \* the exception in flight
    raised,     \* the exception the last call propagated to its caller
    returned,   \* the paths the last call returned
    batch,      \* the frame of the running generate_batch call
    uploads,    \* the upload attempts, in order
    files,      \* the files on disk: path -> what was written
    runs,       \* every completed generate_fits_file call
    unit,       \* the last direct call of one of the engine's functions
    disk        \* the file system written to: "sound", or "flaky"

instVars == <<cfgFile, unit, disk, inst, config, seeded>>
callVars == <<req, image, stages, draws, entry, todo, added, wcs>>
outVars  == <<raised, returned, batch, uploads, files, runs>>
vars == <<cfgFile, inst, config, rng, seeded, ndraws, nimages, pc, req, image,
          stages, draws, entry, todo, added, wcs, exc, raised, returned,
          batch, uploads, files, runs, unit, disk>>

\* ------------------------------------------------------------------------
\* The inputs explored
\* ------------------------------------------------------------------------

\* configuration files: each overrides some defaults; all set a small image
Overrides ==
    { [image_size |-> <<4, 4>>],
      [image_size |-> <<3, 5>>, sky_background |-> R(0)],
      [image_size |-> <<4, 4>>, saturation_level |-> 660, s3_bucket |-> "bucket"],
      [image_size |-> <<4, 4>>, star_density |-> R(0), galaxy_density |-> R(0),
       cosmic_ray_rate |-> R(0)],
      [image_size |-> <<7, 7>>, star_density |-> R(1200), gain |-> R(2)],
      [image_size |-> <<4, 4>>, star_density |-> R(-1)],
      [image_size |-> <<4, 4>>, pixel_scale |-> R(0)],
      [image_size |-> <<0, 4>>],
      [image_size |-> <<-1, 4>>],
      [image_size |-> <<4, 4>>, cosmic_ray_rate |-> R(-1)] }

Seeds == {None} \cup {Some(k) : k \in 0 .. MaxSeed}

UserConfigs ==
    {IF sd.some THEN [random_seed |-> sd] @@ o ELSE o : o \in Overrides, sd \in Seeds}

\* the requests the driver makes of generate_fits_file: everything given,
\* or everything left to the defaults
Requests ==
    { [ra |-> Some(R(10)), dec |-> Some(R(20)), exposure_time |-> R(300), meta |-> TRUE],
      [ra |-> NoneR, dec |-> NoneR, exposure_time |-> R(0), meta |-> FALSE] }

NoArgs == [ra |-> NoneR, dec |-> NoneR, exposure_time |-> R(0), meta |-> FALSE]

\* args: the arguments as the caller passed them; ra, dec: the locals
\* target_ra, target_dec; rng0, before: the random source and its draw
\* count on entry; bidx: the batch index, -1 for a direct call
NoReq ==
    [path |-> <<0, 0>>, args |-> NoArgs, ra |-> NoneR, dec |-> NoneR,
     rng0 |-> 0, before |-> 0, bidx |-> -1]

NoEntry ==
    [kind |-> "none", x |-> R(0), y |-> R(0), flux |-> R(0), fwhm |-> R(0),
     r_eff |-> R(0), axis_ratio |-> R(0), position_angle |-> 0, sersic_n |-> 0,
     energy |-> R(0), length |-> 0, angle |-> 0]

NoAdded == [kind |-> "none", flux |-> R(0), sum |-> R(0), inside |-> FALSE]

\* i, count, upload, generated: the locals of generate_batch; tried: the
\* indices generate_fits_file was called for, in order; base: the number of
\* completed generate_fits_file calls when generate_batch was entered
NoBatch ==
    [on |-> FALSE, i |-> 0, count |-> 0, upload |-> FALSE, generated |-> << >>,
     tried |-> << >>, base |-> 0]

\* no function has been called directly
NoUnit == [op |-> "none"]

Init ==
    /\ cfgFile \in UserConfigs
    /\ inst = 0
    /\ config = DefaultConfig
    /\ rng = 0 /\ seeded = 0 /\ ndraws = 0 /\ nimages = 0
    /\ pc = "idle"
    /\ req = NoReq /\ image = NoImage /\ stages = << >> /\ draws = << >>
    /\ entry = NoEntry /\ todo = 0 /\ added = NoAdded /\ wcs = NoWcs
    /\ exc = "none" /\ raised = "none" /\ returned = << >>
    /\ batch = NoBatch /\ uploads = << >> /\ files = << >> /\ runs = << >>
    /\ unit = NoUnit
    /\ disk = "sound"

\* ------------------------------------------------------------------------
\* Construction
\* ------------------------------------------------------------------------

\* self.config.get('random_seed', 42)
SeedOf(cfg) == IF "random_seed" \in DOMAIN cfg THEN cfg.random_seed ELSE Some(42)

\* AstronomicalFITSGenerator(config_path): __init__
Construct ==
    /\ pc = "idle" /\ inst < MaxInstances
    /\ inst' = inst + 1
    /\ config' = LoadConfig(cfgFile)
    /\ rng' \in SeedStates(SeedOf(config'))
    /\ seeded' = rng'
    /\ ndraws' = 0 /\ nimages' = 0
    /\ UNCHANGED <<cfgFile, unit, disk, pc, exc>>
    /\ UNCHANGED callVars
    /\ UNCHANGED outVars


\* ------------------------------------------------------------------------
\* generate_fits_file
\* ------------------------------------------------------------------------

\* a variant of the stage sequence with the galaxies before the stars
StageAfterGalaxiesFirst(stage) ==
    CASE stage = "defaults" -> "canvas"
      [] stage = "canvas"   -> "sky"
      [] stage = "sky"      -> "galaxies"
      [] stage = "galaxies" -> "stars"
      [] stage = "stars"    -> "cosmic"
      [] stage = "cosmic"   -> "noise"
      [] stage = "noise"    -> "detector"
      [] stage = "detector" -> "wcs"
      [] stage = "wcs"      -> "header"
      [] stage = "header"   -> "write"

\* a variant of the stage sequence with the read noise before the sky
StageAfterNoiseFirst(stage) ==
    CASE stage = "defaults" -> "canvas"
      [] stage = "canvas"   -> "noise"
      [] stage = "noise"    -> "sky"
      [] stage = "sky"      -> "stars"
      [] stage = "stars"    -> "galaxies"
      [] stage = "galaxies" -> "cosmic"
      [] stage = "cosmic"   -> "detector"
      [] stage = "detector" -> "wcs"
      [] stage = "wcs"      -> "header"
      [] stage = "header"   -> "write"

\* the statement that follows each stage of generate_fits_file
StageAfter(stage) ==
    CASE stage = "defaults" -> "canvas"
      [] stage = "canvas"   -> "sky"
      [] stage = "sky"      -> "stars"
      [] stage = "stars"    -> "galaxies"
      [] stage = "galaxies" -> "cosmic"
      [] stage = "cosmic"   -> "noise"
      [] stage = "noise"    -> "detector"
      [] stage = "detector" -> "wcs"
      [] stage = "wcs"      -> "header"
      [] stage = "header"   -> "write"

\* entering generate_fits_file with the given path and arguments
Enter(path, args, bidx) ==
    /\ req' = [path |-> path, args |-> args, ra |-> args.ra, dec |-> args.dec,
               rng0 |-> rng, before |-> ndraws, bidx |-> bidx]
    /\ image' = NoImage /\ stages' = << >>
    /\ entry' = NoEntry /\ todo' = 0 /\ added' = NoAdded /\ wcs' = NoWcs
    /\ nimages' = nimages + 1
    /\ pc' = "defaults"

\* the driver calls generate_fits_file(output_path, ...)
CallGenerate ==
    /\ pc = "idle" /\ inst > 0 /\ nimages < MaxImages
    /\ \E a \in Requests : Enter(<<0, 0>>, a, -1)
    /\ draws' = << >>
    /\ raised' = "none" /\ returned' = << >>
    /\ UNCHANGED <<rng, ndraws, exc, batch, uploads, files, runs>>
    /\ UNCHANGED instVars

\* a variant of raising that first writes what there is of the image to the
\* output path
ThrowLeavingFile(e) ==
    /\ pc' = "raise" /\ exc' = e
    /\ files' = (req.path :> [data |-> AsUint16(image).px, wcs |-> wcs]) @@ files
    /\ UNCHANGED <<rng, ndraws, nimages>>
    /\ UNCHANGED instVars
    /\ UNCHANGED callVars
    /\ UNCHANGED <<raised, returned, batch, uploads, runs>>

\* an exception leaves the running statement
Throw(e) ==
    /\ pc' = "raise" /\ exc' = e
    /\ UNCHANGED <<rng, ndraws, nimages>>
    /\ UNCHANGED instVars
    /\ UNCHANGED callVars
    /\ UNCHANGED outVars

\* "Set random parameters if not provided"
Defaults ==
    /\ pc = "defaults"
    /\ LET nra  == IF req.ra.some THEN 0 ELSE 1
           ndec == IF req.dec.some THEN 0 ELSE 1
           nmet == IF req.args.meta THEN 0 ELSE 3
           n    == nra + ndec + nmet
       IN  /\ req' = [req EXCEPT
                  !.ra  = IF req.ra.some THEN @
                          ELSE Some(Uniform(R(0), R(360), Adv(rng, 1))),
                  !.dec = IF req.dec.some THEN @
                          ELSE Some(Uniform(R(-90), R(90), Adv(rng, nra + 1)))]
           /\ rng' = Adv(rng, n) /\ ndraws' = ndraws + n
           /\ draws' = IF n > 0 THEN Append(draws, "request") ELSE draws
    /\ pc' = StageAfter("defaults")
    /\ UNCHANGED <<nimages, image, stages, entry, todo, added, wcs, exc>>
    /\ UNCHANGED instVars
    /\ UNCHANGED outVars

\* "Create image array"
CreateCanvas ==
    /\ pc = "canvas"
    /\ LET height == config.image_size[1]
           width  == config.image_size[2]
       IN  IF height < 0 \/ width < 0
           THEN Throw("ValueError")
           ELSE /\ image' = Zeros(height, width)
                /\ stages' = Append(stages, "canvas")
                /\ pc' = StageAfter("canvas")
                /\ UNCHANGED <<rng, ndraws, nimages, req, draws, entry, todo, added, wcs, exc>>
                /\ UNCHANGED instVars
                /\ UNCHANGED outVars

\* "Add sky background"
Sky ==
    /\ pc = "sky"
    /\ LET n == Cardinality(DOMAIN image.px)
       IN  IF PoissonRaises(config.sky_background)
           THEN Throw("ValueError")
           ELSE /\ image' = AddSky(image, config.sky_background, rng)
                /\ rng' = Adv(rng, n) /\ ndraws' = ndraws + n
                /\ draws' = Append(draws, "sky")
                /\ stages' = Append(stages, "sky")
                /\ pc' = StageAfter("sky")
                /\ UNCHANGED <<nimages, req, entry, todo, added, wcs, exc>>
                /\ UNCHANGED instVars
                /\ UNCHANGED outVars

\* _add_stars up to the loop: num_stars
StarsCount ==
    /\ pc = "stars"
    /\ LET lam == RMul(config.star_density, FieldArea(image.shape, config))
           num_stars == Poisson(lam, Adv(rng, 1))
       IN  IF PoissonRaises(lam)
           THEN Throw("ValueError")
           ELSE /\ todo' = num_stars
                /\ rng' = Adv(rng, 1) /\ ndraws' = ndraws + 1
                /\ draws' = Append(draws, "stars")
                /\ stages' = Append(stages, "stars")
                /\ pc' = IF num_stars > 0 THEN "star_draw" ELSE StageAfter("stars")
                /\ UNCHANGED <<nimages, req, image, entry, added, wcs, exc>>
                /\ UNCHANGED instVars
                /\ UNCHANGED outVars

\* a variant of the star draw without the floor of the FWHM at 1.0
StarDrawUnfloored ==
    /\ pc = "star_draw"
    /\ LET height == image.shape[1]
           width  == image.shape[2]
           x == Uniform(R(50), R(width - 50), Adv(rng, 1))
           y == Uniform(R(50), R(height - 50), Adv(rng, 2))
           magnitude == StellarMagnitude(Adv(rng, 3), Adv(rng, 4))
           flux == MagnitudeToFlux(magnitude)
           fwhm == Normal(R(2), Rat(3, 10), Adv(rng, 5))
       IN  entry' = [NoEntry EXCEPT !.kind = "star", !.x = x, !.y = y,
                                    !.flux = flux, !.fwhm = fwhm]
    /\ rng' = Adv(rng, 5) /\ ndraws' = ndraws + 5
    /\ draws' = Append(draws, "stars")
    /\ pc' = "star_add"
    /\ UNCHANGED <<nimages, req, image, stages, todo, added, wcs, exc>>
    /\ UNCHANGED instVars
    /\ UNCHANGED outVars

\* one iteration of the star loop, up to the call of _add_stellar_psf
StarDraw ==
    /\ pc = "star_draw"
    /\ LET height == image.shape[1]
           width  == image.shape[2]
           x == Uniform(R(50), R(width - 50), Adv(rng, 1))
           y == Uniform(R(50), R(height - 50), Adv(rng, 2))
           magnitude == StellarMagnitude(Adv(rng, 3), Adv(rng, 4))
           flux == MagnitudeToFlux(magnitude)
           fwhm == RMax(R(1), Normal(R(2), Rat(3, 10), Adv(rng, 5)))
       IN  entry' = [NoEntry EXCEPT !.kind = "star", !.x = x, !.y = y,
                                    !.flux = flux, !.fwhm = fwhm]
    /\ rng' = Adv(rng, 5) /\ ndraws' = ndraws + 5
    /\ draws' = Append(draws, "stars")
    /\ pc' = "star_add"
    /\ UNCHANGED <<nimages, req, image, stages, todo, added, wcs, exc>>
    /\ UNCHANGED instVars
    /\ UNCHANGED outVars

\* the sum over the canvas of new - old, row by row
RECURSIVE DiffRow(_, _, _, _)
DiffRow(old, new, r, c) ==
    IF c < 0 THEN R(0)
    ELSE RAdd(RSub(new.px[<<r, c>>], old.px[<<r, c>>]), DiffRow(old, new, r, c - 1))

RECURSIVE DiffRows(_, _, _)
DiffRows(old, new, r) ==
    IF r < 0 THEN R(0)
    ELSE RAdd(DiffRow(old, new, r, old.shape[2] - 1), DiffRows(old, new, r - 1))

\* the sum of what a compositing step added to the canvas
AddedSum(old, new) == DiffRows(old, new, old.shape[1] - 1)

\* the stamp's bounding box lies inside the canvas
BoxInside(shape, b, size) ==
    /\ b.x_start >= 0 /\ b.x_start + size <= shape[2]
    /\ b.y_start >= 0 /\ b.y_start + size <= shape[1]

\* _add_stellar_psf for the star drawn, and the end of the loop body
StarAdd ==
    /\ pc = "star_add"
    /\ image' = AddStellarPsf(image, entry.x, entry.y, entry.flux, entry.fwhm)
    /\ LET size == StampSize(SixSigma(entry.fwhm))
       IN  added' = [kind |-> "star", flux |-> entry.flux,
                     sum |-> AddedSum(image, image'),
                     inside |-> BoxInside(image.shape,
                                   StarBox(image.shape, entry.x, entry.y, size), size)]
    /\ todo' = todo - 1
    /\ pc' = IF todo > 1 THEN "star_draw" ELSE StageAfter("stars")
    /\ UNCHANGED <<rng, ndraws, nimages, req, stages, draws, entry, wcs, exc>>
    /\ UNCHANGED instVars
    /\ UNCHANGED outVars


\* _add_galaxies up to the loop: num_galaxies
GalaxiesCount ==
    /\ pc = "galaxies"
    /\ LET lam == RMul(config.galaxy_density, FieldArea(image.shape, config))
           num_galaxies == Poisson(lam, Adv(rng, 1))
       IN  IF PoissonRaises(lam)
           THEN Throw("ValueError")
           ELSE /\ todo' = num_galaxies
                /\ rng' = Adv(rng, 1) /\ ndraws' = ndraws + 1
                /\ draws' = Append(draws, "galaxies")
                /\ stages' = Append(stages, "galaxies")
                /\ pc' = IF num_galaxies > 0 THEN "galaxy_draw" ELSE StageAfter("galaxies")
                /\ UNCHANGED <<nimages, req, image, entry, added, wcs, exc>>
                /\ UNCHANGED instVars
                /\ UNCHANGED outVars

\* one iteration of the galaxy loop, up to the call of _add_galaxy_profile
GalaxyDraw ==
    /\ pc = "galaxy_draw"
    /\ LET height == image.shape[1]
           width  == image.shape[2]
           x == Uniform(R(100), R(width - 100), Adv(rng, 1))
           y == Uniform(R(100), R(height - 100), Adv(rng, 2))
           magnitude == GalaxyMagnitude(Adv(rng, 3))
           flux == MagnitudeToFlux(magnitude)
           effective_radius == RAdd(Exponential(R(3), Adv(rng, 4)), R(1))
           axis_ratio == Uniform(Rat(3, 10), R(1), Adv(rng, 5))
           \* uniform(0, 180), in quarter turns: 0 or 90 degrees
           position_angle == Trunc(Uniform(R(0), R(2), Adv(rng, 6)))
           \* choice([1.0, 4.0], p=[0.7, 0.3])
           sersic_n == IF 10 * Word(Adv(rng, 7)) < 7 * 256 THEN 1 ELSE 4
       IN  entry' = [NoEntry EXCEPT !.kind = "galaxy", !.x = x, !.y = y,
                        !.flux = flux, !.r_eff = effective_radius,
                        !.axis_ratio = axis_ratio,
                        !.position_angle = position_angle, !.sersic_n = sersic_n]
    /\ rng' = Adv(rng, 7) /\ ndraws' = ndraws + 7
    /\ draws' = Append(draws, "galaxies")
    /\ pc' = "galaxy_add"
    /\ UNCHANGED <<nimages, req, image, stages, todo, added, wcs, exc>>
    /\ UNCHANGED instVars
    /\ UNCHANGED outVars

\* _add_galaxy_profile for the galaxy drawn, and the end of the loop body
GalaxyAdd ==
    /\ pc = "galaxy_add"
    /\ image' = AddGalaxyProfile(image, entry.x, entry.y, entry.flux, entry.r_eff,
                    entry.axis_ratio, entry.position_angle, entry.sersic_n)
    /\ LET size == StampSize(RMul(R(6), entry.r_eff))
       IN  added' = [kind |-> "galaxy", flux |-> entry.flux,
                     sum |-> AddedSum(image, image'),
                     inside |-> BoxInside(image.shape,
                                   GalaxyBox(image.shape, entry.x, entry.y, size), size)]
    /\ todo' = todo - 1
    /\ pc' = IF todo > 1 THEN "galaxy_draw" ELSE StageAfter("galaxies")
    /\ UNCHANGED <<rng, ndraws, nimages, req, stages, draws, entry, wcs, exc>>
    /\ UNCHANGED instVars
    /\ UNCHANGED outVars

\* a variant of the hit count that takes the rate per image, whatever the
\* exposure time
CosmicCountExposureIgnored ==
    /\ pc = "cosmic"
    /\ LET total_pixels == image.shape[1] * image.shape[2]
           expected_hits == RMul(config.cosmic_ray_rate, R(total_pixels))
           num_hits == Poisson(expected_hits, Adv(rng, 1))
       IN  IF PoissonRaises(expected_hits)
           THEN Throw("ValueError")
           ELSE /\ todo' = num_hits
                /\ rng' = Adv(rng, 1) /\ ndraws' = ndraws + 1
                /\ draws' = Append(draws, "cosmic")
                /\ stages' = Append(stages, "cosmic")
                /\ pc' = IF num_hits > 0 THEN "cr_draw" ELSE StageAfter("cosmic")
                /\ UNCHANGED <<nimages, req, image, entry, added, wcs, exc>>
                /\ UNCHANGED instVars
                /\ UNCHANGED outVars


\* _add_cosmic_rays up to the loop: num_hits
CosmicCount ==
    /\ pc = "cosmic"
    /\ LET total_pixels == image.shape[1] * image.shape[2]
           expected_hits == RMul(RMul(config.cosmic_ray_rate, R(total_pixels)),
                                 RDiv(req.args.exposure_time, R(3600)))
           num_hits == Poisson(expected_hits, Adv(rng, 1))
       IN  IF PoissonRaises(expected_hits)
           THEN Throw("ValueError")
           ELSE /\ todo' = num_hits
                /\ rng' = Adv(rng, 1) /\ ndraws' = ndraws + 1
                /\ draws' = Append(draws, "cosmic")
                /\ stages' = Append(stages, "cosmic")
                /\ pc' = IF num_hits > 0 THEN "cr_draw" ELSE StageAfter("cosmic")
                /\ UNCHANGED <<nimages, req, image, entry, added, wcs, exc>>
                /\ UNCHANGED instVars
                /\ UNCHANGED outVars

\* one iteration of the hit loop, up to the track
CosmicDraw ==
    /\ pc = "cr_draw"
    /\ LET height == image.shape[1]
           width  == image.shape[2]
           x == RandInt(0, width, Adv(rng, 1))
           y == RandInt(0, height, Adv(rng, 2))
           energy == RAdd(Exponential(R(5000), Adv(rng, 3)), R(1000))
           length == Poisson(R(3), Adv(rng, 4)) + 1
           \* uniform(0, 2 pi), in eighths of a turn
           angle == Word(Adv(rng, 5)) \div 32
       IN  entry' = [NoEntry EXCEPT !.kind = "cr", !.x = R(x), !.y = R(y),
                        !.energy = energy, !.length = length, !.angle = angle]
    /\ rng' = Adv(rng, 5) /\ ndraws' = ndraws + 5
    /\ draws' = Append(draws, "cosmic")
    /\ pc' = "cr_add"
    /\ UNCHANGED <<nimages, req, image, stages, todo, added, wcs, exc>>
    /\ UNCHANGED instVars
    /\ UNCHANGED outVars

\* "Create cosmic ray track" for the hit drawn, and the end of the loop body
CosmicAdd ==
    /\ pc = "cr_add"
    /\ image' = Track(image, entry.x[1], entry.y[1], entry.energy, entry.length,
                      entry.angle, 0)
    /\ todo' = todo - 1
    /\ pc' = IF todo > 1 THEN "cr_draw" ELSE StageAfter("cosmic")
    /\ UNCHANGED <<rng, ndraws, nimages, req, stages, draws, entry, added, wcs, exc>>
    /\ UNCHANGED instVars
    /\ UNCHANGED outVars

\* "Add noise": _add_noise
Noise ==
    /\ pc = "noise"
    /\ LET n == Cardinality(DOMAIN image.px)
       IN  /\ image' = AddNoise(image, config.read_noise, rng)
           /\ rng' = Adv(rng, n) /\ ndraws' = ndraws + n
    /\ draws' = Append(draws, "noise")
    /\ stages' = Append(stages, "noise")
    /\ pc' = StageAfter("noise")
    /\ UNCHANGED <<nimages, req, entry, todo, added, wcs, exc>>
    /\ UNCHANGED instVars
    /\ UNCHANGED outVars

\* "Convert to ADU and apply saturation"
Detector ==
    /\ pc = "detector"
    /\ image' = Clip(ToADU(image, config.gain), config.saturation_level)
    /\ stages' = Append(stages, "detector")
    /\ pc' = StageAfter("detector")
    /\ UNCHANGED <<rng, ndraws, nimages, req, draws, entry, todo, added, wcs, exc>>
    /\ UNCHANGED instVars
    /\ UNCHANGED outVars

\* a variant of the step in which building the frame stores the pixel scale
\* in degrees back into the configuration
WcsStoringScale ==
    /\ pc = "wcs"
    /\ wcs' = CreateWcs(req.ra.v, req.dec.v, image.shape[2], image.shape[1], config)
    /\ config' = [config EXCEPT !.pixel_scale = RDiv(@, R(3600))]
    /\ stages' = Append(stages, "wcs")
    /\ pc' = StageAfter("wcs")
    /\ UNCHANGED <<rng, ndraws, nimages, req, image, draws, entry, todo, added, exc>>
    /\ UNCHANGED <<cfgFile, unit, disk, inst, seeded>>
    /\ UNCHANGED outVars

\* a variant of the step in which building the frame draws on the random
\* source
WcsDrawing ==
    /\ pc = "wcs"
    /\ wcs' = CreateWcs(req.ra.v, req.dec.v, image.shape[2], image.shape[1], config)
    /\ rng' = Adv(rng, 1) /\ ndraws' = ndraws + 1
    /\ stages' = Append(stages, "wcs")
    /\ pc' = StageAfter("wcs")
    /\ UNCHANGED <<nimages, req, image, draws, entry, todo, added, exc>>
    /\ UNCHANGED instVars
    /\ UNCHANGED outVars

\* "Create WCS"
Wcs ==
    /\ pc = "wcs"
    /\ wcs' = CreateWcs(req.ra.v, req.dec.v, image.shape[2], image.shape[1], config)
    /\ stages' = Append(stages, "wcs")
    /\ pc' = StageAfter("wcs")
    /\ UNCHANGED <<rng, ndraws, nimages, req, image, draws, entry, todo, added, exc>>
    /\ UNCHANGED instVars
    /\ UNCHANGED outVars

\* _create_fits_header: the draws for DATE-OBS, AIRMASS and SEEING
Header ==
    /\ pc = "header"
    /\ rng' = Adv(rng, 3) /\ ndraws' = ndraws + 3
    /\ draws' = Append(draws, "header")
    /\ stages' = Append(stages, "header")
    /\ pc' = StageAfter("header")
    /\ UNCHANGED <<nimages, req, image, entry, todo, added, wcs, exc>>
    /\ UNCHANGED instVars
    /\ UNCHANGED outVars

\* what a completed call leaves in the history
RunRecord ==
    [ inst |-> inst, seed |-> SeedOf(config), args |-> req.args,
      before |-> req.before, rng0 |-> req.rng0, bidx |-> req.bidx,
      path |-> req.path, pixels |-> image.px, wcs |-> wcs ]

\* "Create FITS HDU", "Write FITS file" and the return; inside
\* generate_batch, generated_files.append(file_path). The file system
\* accepts the write, or, where writes can fail, writeto raises OSError
Write ==
    /\ pc = "write"
    /\ \E ok \in {TRUE} \cup {disk = "sound"} :
        IF ~ok THEN Throw("OSError")
        ELSE
        /\ files' = (req.path :> [data |-> AsUint16(image).px, wcs |-> wcs]) @@ files
        /\ runs' = Append(runs, RunRecord)
        /\ stages' = Append(stages, "write")
        /\ IF batch.on
           THEN /\ batch' = [batch EXCEPT !.generated = Append(@, req.path)]
                /\ pc' = IF batch.upload /\ config.s3_bucket # "None"
                         THEN "upload" ELSE "batch_next"
                /\ UNCHANGED returned
           ELSE /\ returned' = <<req.path>>
                /\ pc' = "idle"
                /\ UNCHANGED batch
        /\ UNCHANGED <<rng, ndraws, nimages, req, image, draws, entry, todo, added, wcs,
                       exc, raised, uploads>>
        /\ UNCHANGED instVars

\* a variant in which generate_batch does not catch the exception: it
\* leaves the loop and reaches the caller of generate_batch
UnwindAbortBatch ==
    /\ pc = "raise"
    /\ pc' = "idle" /\ raised' = exc
    /\ batch' = NoBatch
    /\ exc' = "none"
    /\ UNCHANGED <<rng, ndraws, nimages, returned, uploads, files, runs>>
    /\ UNCHANGED instVars
    /\ UNCHANGED callVars

\* a variant in which a failed generate_fits_file call is started again
\* from its first statement instead of raising
UnwindRetry ==
    /\ pc = "raise"
    /\ pc' = "defaults"
    /\ exc' = "none"
    /\ UNCHANGED <<rng, ndraws, nimages, raised, returned, batch, uploads, files, runs>>
    /\ UNCHANGED instVars
    /\ UNCHANGED callVars

\* the exception reaches the caller: generate_batch's except clause logs it
\* and goes on; the driver of a direct call sees it
Unwind ==
    /\ pc = "raise"
    /\ IF batch.on
       THEN pc' = "batch_next" /\ UNCHANGED raised
       ELSE pc' = "idle" /\ raised' = exc
    /\ exc' = "none"
    /\ UNCHANGED <<rng, ndraws, nimages, returned, batch, uploads, files, runs>>
    /\ UNCHANGED instVars
    /\ UNCHANGED callVars

\* ------------------------------------------------------------------------
\* generate_batch
\* ------------------------------------------------------------------------

\* the driver calls generate_batch(output_dir, count, upload_to_s3)
CallBatch ==
    /\ pc = "idle" /\ inst > 0
    /\ \E count \in 1 .. MaxImages - nimages, up \in BOOLEAN :
          batch' = [on |-> TRUE, i |-> 0, count |-> count, upload |-> up,
                    generated |-> << >>, tried |-> << >>, base |-> Len(runs)]
    /\ pc' = "batch_iter"
    /\ raised' = "none" /\ returned' = << >>
    /\ UNCHANGED <<rng, ndraws, nimages, exc, uploads, files, runs>>
    /\ UNCHANGED instVars
    /\ UNCHANGED callVars

\* the loop body up to the call: "Generate random observation parameters"
BatchIter ==
    /\ pc = "batch_iter"
    /\ LET ra  == Uniform(R(0), R(360), Adv(rng, 1))
           dec == Uniform(R(-30), R(60), Adv(rng, 2))
           exposure == <<60, 120, 300, 600, 900>>[ChoiceIndex(5, Adv(rng, 3))]
           after == Adv(rng, 3)
       IN  /\ req' = [path |-> <<inst, batch.i + 1>>,
                      args |-> [ra |-> Some(ra), dec |-> Some(dec),
                                exposure_time |-> R(exposure), meta |-> FALSE],
                      ra |-> Some(ra), dec |-> Some(dec),
                      rng0 |-> after, before |-> ndraws + 3, bidx |-> batch.i]
           /\ rng' = after /\ ndraws' = ndraws + 3
    /\ draws' = <<"request">>
    /\ image' = NoImage /\ stages' = << >>
    /\ entry' = NoEntry /\ todo' = 0 /\ added' = NoAdded /\ wcs' = NoWcs
    /\ nimages' = nimages + 1
    /\ batch' = [batch EXCEPT !.tried = Append(@, batch.i)]
    /\ pc' = "defaults"
    /\ UNCHANGED <<exc, raised, returned, uploads, files, runs>>
    /\ UNCHANGED instVars

\* a variant of the upload in which a failure takes the file's path off the
\* list generate_batch returns
UploadFailureDrops ==
    /\ pc = "upload"
    /\ \E ok \in BOOLEAN :
          /\ uploads' = Append(uploads, [path |-> req.path, ok |-> ok])
          /\ batch' = IF ok THEN batch
                      ELSE [batch EXCEPT !.generated = SubSeq(@, 1, Len(@) - 1)]
    /\ pc' = "batch_next"
    /\ UNCHANGED <<rng, ndraws, nimages, exc, raised, returned, files, runs>>
    /\ UNCHANGED instVars
    /\ UNCHANGED callVars

\* _upload_to_s3: the upload succeeds, or fails with an exception that
\* _upload_to_s3 itself catches and logs
Upload ==
    /\ pc = "upload"
    /\ \E ok \in BOOLEAN : uploads' = Append(uploads, [path |-> req.path, ok |-> ok])
    /\ pc' = "batch_next"
    /\ UNCHANGED <<rng, ndraws, nimages, exc, raised, returned, batch, files, runs>>
    /\ UNCHANGED instVars
    /\ UNCHANGED callVars

\* the end of the loop body; after the last image, return generated_files
BatchNext ==
    /\ pc = "batch_next"
    /\ IF batch.i + 1 < batch.count
       THEN /\ batch' = [batch EXCEPT !.i = @ + 1]
            /\ pc' = "batch_iter"
            /\ UNCHANGED returned
       ELSE /\ batch' = NoBatch
            /\ returned' = batch.generated
            /\ pc' = "idle"
    /\ UNCHANGED <<rng, ndraws, nimages, exc, raised, uploads, files, runs>>
    /\ UNCHANGED instVars
    /\ UNCHANGED callVars

\* ------------------------------------------------------------------------
\* The program
\* ------------------------------------------------------------------------

Next ==
    \/ Construct
    \/ CallGenerate
    \/ Defaults
    \/ CreateCanvas
    \/ Sky
    \/ StarsCount
    \/ StarDraw
    \/ StarAdd
    \/ GalaxiesCount
    \/ GalaxyDraw
    \/ GalaxyAdd
    \/ CosmicCount
    \/ CosmicDraw
    \/ CosmicAdd
    \/ Noise
    \/ Detector
    \/ Wcs
    \/ Header
    \/ Write
    \/ Unwind
    \/ CallBatch
    \/ BatchIter
    \/ Upload
    \/ BatchNext

Spec == Init /\ [][Next]_vars

\* ------------------------------------------------------------------------
\* The program on a file system whose writes can fail
\* ------------------------------------------------------------------------

\* the configuration files explored there: a valid one with and without a
\* bucket, and one whose star density makes _add_stars raise
FlakyOverrides ==
    { [image_size |-> <<4, 4>>],
      [image_size |-> <<4, 4>>, saturation_level |-> 660, s3_bucket |-> "bucket"],
      [image_size |-> <<4, 4>>, star_density |-> R(-1)] }

InitFlaky ==
    /\ cfgFile \in {c \in UserConfigs :
            \E o \in FlakyOverrides : c = o \/ c = [random_seed |-> Some(0)] @@ o}
    /\ inst = 0
    /\ config = DefaultConfig
    /\ rng = 0 /\ seeded = 0 /\ ndraws = 0 /\ nimages = 0
    /\ pc = "idle"
    /\ req = NoReq /\ image = NoImage /\ stages = << >> /\ draws = << >>
    /\ entry = NoEntry /\ todo = 0 /\ added = NoAdded /\ wcs = NoWcs
    /\ exc = "none" /\ raised = "none" /\ returned = << >>
    /\ batch = NoBatch /\ uploads = << >> /\ files = << >> /\ runs = << >>
    /\ unit = NoUnit
    /\ disk = "flaky"

SpecFlaky == InitFlaky /\ [][Next]_vars

\* ------------------------------------------------------------------------
\* The engine's functions called directly
\* ------------------------------------------------------------------------

\* everything but unit: a direct call of a rendering function or of the
\* flux conversion touches no attribute of the generator
engineVars ==
    <<cfgFile, inst, config, rng, seeded, ndraws, nimages, pc, req, image,
      stages, draws, entry, todo, added, wcs, exc, raised, returned, batch,
      uploads, files, runs, disk>>

\* the canvases handed to the rendering functions: np.zeros(shape)
UnitShapes == {<<4, 4>>, <<3, 5>>}

\* source positions: left of the canvas, on it, between pixels
UnitPositions == {R(-1), R(1), Rat(5, 2)}

UnitFlux == {R(100)}

\* shape parameters, the zero and negative ones included
UnitFwhm == {R(-1), Rat(-1, 4), R(0), R(1), R(2)}

UnitREff == {R(-1), Rat(-1, 10), R(0), R(1)}

UnitAxisRatio == {Rat(-1, 2), R(0), Rat(1, 2), R(1)}

\* magnitudes from 10.0 to 30.0 in steps of 0.25: the exponent
\* (25 - m) / 2.5 is then a whole number of tenths
UnitMagnitudes == {Rat(k, 4) : k \in 40 .. 120}

\* self._add_stellar_psf(image, x, y, flux, fwhm) on a canvas of zeros; the
\* function has no raise statement and its array operations raise nothing
CallAddStellarPsf ==
    \E shape \in UnitShapes, x \in UnitPositions, y \in UnitPositions,
       flux \in UnitFlux, fwhm \in UnitFwhm :
        /\ unit.op = "none"
        /\ unit' = [ op |-> "_add_stellar_psf",
                     args |-> [x |-> x, y |-> y, flux |-> flux, fwhm |-> fwhm],
                     before |-> Zeros(shape[1], shape[2]),
                     after |-> AddStellarPsf(Zeros(shape[1], shape[2]), x, y, flux, fwhm),
                     raised |-> "none" ]
        /\ UNCHANGED engineVars

\* self._add_galaxy_profile(image, x, y, flux, r_eff, axis_ratio,
\* position_angle, sersic_n) on a canvas of zeros
CallAddGalaxyProfile ==
    \E shape \in UnitShapes, x \in UnitPositions, y \in UnitPositions,
       flux \in UnitFlux, r_eff \in UnitREff, axis_ratio \in UnitAxisRatio,
       pa \in {0, 1}, sersic_n \in {1, 4} :
        /\ unit.op = "none"
        /\ unit' = [ op |-> "_add_galaxy_profile",
                     args |-> [x |-> x, y |-> y, flux |-> flux, r_eff |-> r_eff,
                               axis_ratio |-> axis_ratio, position_angle |-> pa,
                               sersic_n |-> sersic_n],
                     before |-> Zeros(shape[1], shape[2]),
                     after |-> AddGalaxyProfile(Zeros(shape[1], shape[2]), x, y, flux,
                                                r_eff, axis_ratio, pa, sersic_n),
                     raised |-> "none" ]
        /\ UNCHANGED engineVars

\* self._magnitude_to_flux(magnitude)
CallMagnitudeToFlux ==
    \E magnitude \in UnitMagnitudes :
        /\ unit.op = "none"
        /\ unit' = [ op |-> "_magnitude_to_flux",
                     args |-> [magnitude |-> magnitude],
                     flux |-> MagnitudeToFlux(magnitude),
                     raised |-> "none" ]
        /\ UNCHANGED engineVars

\* positions and stamp sides for the boundary handling: far off the canvas
\* on either side, across an edge, inside
BoxPositions == {R(-10), R(-1), Rat(1, 2), R(1), Rat(5, 2), R(4), R(50)}

BoxSizes == {1, 3, 7}

\* the "Handle boundary conditions" lines of _add_stellar_psf and of
\* _add_galaxy_profile, for the same position, stamp side and canvas
CallBoundaryHandling ==
    \E shape \in UnitShapes, x \in BoxPositions, y \in BoxPositions, size \in BoxSizes :
        /\ unit.op = "none"
        /\ unit' = [ op |-> "boundary",
                     args |-> [shape |-> shape, x |-> x, y |-> y, size |-> size],
                     star |-> StarBox(shape, x, y, size),
                     galaxy |-> GalaxyBox(shape, x, y, size),
                     raised |-> "none" ]
        /\ UNCHANGED engineVars

\* electrons on a pixel before the detector response, from negative (after
\* read noise) to beyond the 16-bit range
DetectorElectrons ==
    {R(-5), R(0), Rat(1321, 2), R(65535), Rat(131071, 2), R(65536), R(70000),
     Rat(1000007, 10), R(200000)}

\* saturation levels a configuration file may set
DetectorSaturation == {660, 65000, 65535, 70000, 100000}

\* "Convert to ADU and apply saturation" and image.astype(np.uint16) of
\* generate_fits_file, on a canvas of one row
CallDetectorResponse ==
    \E v1 \in DetectorElectrons, v2 \in DetectorElectrons, gain \in {R(1), Rat(3, 2)},
       level \in DetectorSaturation :
        /\ unit.op = "none"
        /\ LET before  == [shape |-> <<1, 2>>, px |-> (<<0, 0>> :> v1) @@ (<<0, 1>> :> v2)]
               clipped == Clip(ToADU(before, gain), level)
           IN  \E stored \in {AsUint16(clipped), AsUint16Saturating(clipped)} :
                 unit' = [ op |-> "detector",
                           args |-> [gain |-> gain, saturation_level |-> level],
                           before |-> before, clipped |-> clipped, stored |-> stored,
                           raised |-> "none" ]
        /\ UNCHANGED engineVars

\* a generator constructed from a valid file, and one of its functions
\* called with arguments of the caller's choosing
InitUnit == Init /\ cfgFile = [image_size |-> <<4, 4>>]

NextUnit ==
    \/ CallAddStellarPsf
    \/ CallAddGalaxyProfile
    \/ CallMagnitudeToFlux
    \/ CallBoundaryHandling
    \/ CallDetectorResponse

SpecUnit == InitUnit /\ [][NextUnit]_vars

\* ------------------------------------------------------------------------
\* Properties
\* ------------------------------------------------------------------------

\* the stages of generate_fits_file in the order of its source text
StageOrder ==
    <<"canvas", "sky", "stars", "galaxies", "cosmic", "noise", "detector", "wcs",
      "header", "write">>

\* the number of stages that have run when the program is at pc inside a call
StagesBefore ==
    CASE pc = "defaults" \/ pc = "canvas" -> 0
      [] pc = "sky" -> 1
      [] pc = "stars" -> 2
      [] pc = "star_draw" \/ pc = "star_add" \/ pc = "galaxies" -> 3
      [] pc = "galaxy_draw" \/ pc = "galaxy_add" \/ pc = "cosmic" -> 4
      [] pc = "cr_draw" \/ pc = "cr_add" \/ pc = "noise" -> 5
      [] pc = "detector" -> 6
      [] pc = "wcs" -> 7
      [] pc = "header" -> 8
      [] pc = "write" -> 9
      [] OTHER -> Len(stages)

\* C1: in every call of generate_fits_file the stages that have run are an
\* initial part of the sequence canvas, sky, stars, galaxies, cosmic rays,
\* read noise, gain and clip, WCS (then header and write), each once and in
\* this order; the stage about to run is the next of the sequence, and a
\* call that has written its file has run them all.
C1_StageOrder ==
    /\ Len(stages) <= Len(StageOrder)
    /\ stages = SubSeq(StageOrder, 1, Len(stages))
    /\ Len(stages) = StagesBefore
    /\ (pc = "idle" /\ returned = <<req.path>> /\ req.bidx = -1
            => stages = StageOrder)

\* a direct call has returned after compositing a galaxy and tracing a
\* cosmic ray: every stage has run
C1_Witness ==
    /\ pc = "idle" /\ returned = <<req.path>> /\ req.bidx = -1
    /\ stages = StageOrder
    /\ added.kind = "galaxy" /\ entry.kind = "cr"

\* C2: two first calls on generators constructed with the same integer
\* seed from the same configuration, with the same request, produce the
\* same pixel array and the same WCS parameters.
C2_Determinism ==
    \A i, j \in 1 .. Len(runs) :
        /\ runs[i].seed.some /\ runs[i].seed = runs[j].seed
        /\ runs[i].before = 0 /\ runs[j].before = 0
        /\ runs[i].bidx = -1 /\ runs[j].bidx = -1
        /\ runs[i].args = runs[j].args
        => runs[i].pixels = runs[j].pixels /\ runs[i].wcs = runs[j].wcs

\* two generators with the same integer seed have each completed a first
\* call with the same request, the target drawn by the call itself, on a
\* canvas that has pixels
C2_Witness ==
    \E i, j \in 1 .. Len(runs) :
        /\ runs[i].inst # runs[j].inst
        /\ runs[i].seed.some /\ runs[i].seed = runs[j].seed
        /\ runs[i].before = 0 /\ runs[j].before = 0
        /\ runs[i].bidx = -1 /\ runs[j].bidx = -1
        /\ runs[i].args = runs[j].args /\ ~runs[i].args.ra.some
        /\ DOMAIN runs[i].pixels # {}

\* C3: once the detector response stage has run, every pixel of the canvas
\* lies in [0, saturation_level]; with a ceiling that fits 16 bits the same
\* holds of the data written to the file.
C3_Saturation ==
    /\ Len(stages) >= 7 =>
          \A p \in DOMAIN image.px :
              RLe(R(0), image.px[p]) /\ RLe(image.px[p], R(config.saturation_level))
    /\ config.saturation_level < 65536 =>
          \A f \in DOMAIN files : \A p \in DOMAIN files[f].data :
              0 <= files[f].data[p] /\ files[f].data[p] <= config.saturation_level

\* the detector response has clipped a pixel at the ceiling and another
\* pixel lies strictly inside the range
C3_Witness ==
    /\ Len(stages) >= 7
    /\ \E p \in DOMAIN image.px : image.px[p] = R(config.saturation_level)
    /\ \E p \in DOMAIN image.px :
          RLt(R(0), image.px[p]) /\ RLt(image.px[p], R(config.saturation_level))

\* C4: what compositing a star or galaxy stamp adds to the canvas sums to
\* at most the requested flux, and to exactly the requested flux when the
\* stamp's bounding box lies inside the canvas.
C4_FluxConservation ==
    added.kind # "none" =>
        /\ RLe(added.sum, added.flux)
        /\ (added.inside => added.sum = added.flux)

\* a star stamp has been composited with its bounding box inside the canvas
C4_Witness ==
    /\ added.kind = "star" /\ added.inside
    /\ RLt(R(0), added.flux) /\ added.sum = added.flux

\* the side of the stamp of the source in entry, the stamp, and the
\* top-left corner of its integer bounding box, from the source's
\* parameters alone
EntrySize ==
    IF entry.kind = "star" THEN StampSize(SixSigma(entry.fwhm))
    ELSE StampSize(RMul(R(6), entry.r_eff))

EntryStamp ==
    IF entry.kind = "star" THEN StarStamp(entry.flux, entry.fwhm)
    ELSE GalaxyStamp(entry.flux, entry.r_eff, entry.axis_ratio,
                     entry.position_angle, entry.sersic_n)

EntryXStart == Trunc(RSub(entry.x, R(EntrySize \div 2)))

EntryYStart == Trunc(RSub(entry.y, R(EntrySize \div 2)))

\* C5: compositing a stamp adds stamp[r - y_start, c - x_start] to exactly
\* the canvas pixels (r, c) inside the stamp's integer bounding box and
\* leaves every other pixel, and the shape of the canvas, unchanged.
C5_CompositeFrame ==
    [][pc = "star_add" \/ pc = "galaxy_add" =>
          LET stamp   == EntryStamp
              size    == EntrySize
              x_start == EntryXStart
              y_start == EntryYStart
          IN  /\ image'.shape = image.shape
              /\ DOMAIN image'.px = DOMAIN image.px
              /\ \A p \in DOMAIN image.px :
                    image'.px[p] =
                        IF /\ y_start <= p[1] /\ p[1] < y_start + size
                           /\ x_start <= p[2] /\ p[2] < x_start + size
                        THEN RAdd(image.px[p],
                                  stamp[<<p[1] - y_start, p[2] - x_start>>])
                        ELSE image.px[p]]_vars

\* a stamp has been composited that straddles the top or left edge of the
\* canvas: part of it, not all, was added
C5_Witness ==
    /\ added.kind # "none" /\ ~added.inside
    /\ RLt(R(0), added.sum) /\ RLt(added.sum, added.flux)
    /\ (EntryXStart < 0 \/ EntryYStart < 0)

\* the rank of a draw's stage in the order of the draws
DrawRank(stage) ==
    CASE stage = "request"  -> 0
      [] stage = "sky"      -> 1
      [] stage = "stars"    -> 2
      [] stage = "galaxies" -> 3
      [] stage = "cosmic"   -> 4
      [] stage = "noise"    -> 5
      [] stage = "header"   -> 6

\* C6: within one image generation the draws on the random source come in
\* the order sky background, stars, galaxies, cosmic rays, read noise (the
\* draws for an unset request come before them, the header's after them).
C6_DrawOrder ==
    \A i, j \in 1 .. Len(draws) :
        i < j => DrawRank(draws[i]) <= DrawRank(draws[j])

\* a generation has drawn for the sky, for the star count and a star, for
\* the galaxy count and a galaxy, for the hit count and a cosmic ray, and
\* for the read noise
C6_Witness ==
    /\ {"sky", "stars", "galaxies", "cosmic", "noise"} \subseteq
          {draws[i] : i \in 1 .. Len(draws)}
    /\ Cardinality({i \in 1 .. Len(draws) : draws[i] = "stars"}) >= 2
    /\ Cardinality({i \in 1 .. Len(draws) : draws[i] = "galaxies"}) >= 2
    /\ Cardinality({i \in 1 .. Len(draws) : draws[i] = "cosmic"}) >= 2

\* C7: in a batch, the pixel array of image i is fixed by the seed and the
\* index i alone: two batch images with the same integer seed and the same
\* index have the same pixels, whatever was drawn before them.
C7_BatchImageIndependent ==
    \A i, j \in 1 .. Len(runs) :
        /\ runs[i].seed.some /\ runs[i].seed = runs[j].seed
        /\ runs[i].bidx >= 0 /\ runs[i].bidx = runs[j].bidx
        => runs[i].pixels = runs[j].pixels

\* C8: every call of generate_fits_file begins with the random source as
\* construction seeded it, no draw made.
C8_FreshSourcePerCall ==
    \A i \in 1 .. Len(runs) :
        runs[i].bidx = -1 => runs[i].before = 0 /\ runs[i].rng0 \in SeedStates(runs[i].seed)

\* every pixel of the canvas is at least 0
NonNegative == \A p \in DOMAIN image.px : RLe(R(0), image.px[p])

\* every pixel of the canvas is at most the saturation ceiling
AtMostCeiling ==
    \A p \in DOMAIN image.px : RLe(image.px[p], R(config.saturation_level))

\* C9 as stated: from canvas creation on every pixel is non-negative, and
\* within [0, saturation_level] after the clip.
C9_NonNegativeUntilClip ==
    /\ Len(stages) >= 1 => NonNegative
    /\ Len(stages) >= 7 => AtMostCeiling

\* C9, amended: every pixel is non-negative from canvas creation through
\* the cosmic-ray stage, and within [0, saturation_level] after the clip;
\* between the read noise and the clip a pixel may be negative.
C9_NonNegativeBeforeNoise ==
    /\ (Len(stages) >= 1 /\ Len(stages) <= 5) => NonNegative
    /\ Len(stages) >= 7 => NonNegative /\ AtMostCeiling

\* the clip has run on a canvas on which sources and cosmic rays were
\* added, and has left a pixel at 0
C9_Witness ==
    /\ Len(stages) >= 7 /\ added.kind # "none" /\ entry.kind = "cr"
    /\ \E p \in DOMAIN image.px : image.px[p] = R(0)
    /\ \E p \in DOMAIN image.px : RLt(R(0), image.px[p])

\* the configuration is valid in the sense of the error taxonomy: positive
\* dimensions, non-zero pixel scale, non-negative densities and rates
ValidConfig(cfg) ==
    /\ cfg.image_size[1] > 0 /\ cfg.image_size[2] > 0
    /\ cfg.pixel_scale[1] # 0
    /\ cfg.star_density[1] >= 0 /\ cfg.galaxy_density[1] >= 0
    /\ cfg.cosmic_ray_rate[1] >= 0

\* C10: with an invalid configuration no canvas is created, no draw is made
\* on the random source and nothing is written.
C10_FailFast ==
    (inst > 0 /\ ~ValidConfig(config)) =>
        /\ image = NoImage /\ stages = << >>
        /\ ndraws = 0
        /\ files = << >>

\* the shape parameters of a directly rendered source include a zero or a
\* negative one: star FWHM, galaxy effective radius, galaxy axis ratio
DegenerateShape ==
    CASE unit.op = "_add_stellar_psf" -> RLe(unit.args.fwhm, R(0))
      [] unit.op = "_add_galaxy_profile" ->
            RLe(unit.args.r_eff, R(0)) \/ RLe(unit.args.axis_ratio, R(0))
      [] OTHER -> FALSE

C19_StrictlyDecreasing ==
    (/\ unit.op = "_magnitude_to_flux"
     /\ RLe(R(12), unit.args.magnitude))
    => \A m2 \in UnitMagnitudes :
          (RLt(unit.args.magnitude, m2) /\ RLe(m2, R(27)))
          => RLt(MagnitudeToFlux(m2), unit.flux)

\* C19: for all magnitudes m1 < m2 the flux of m2 is at most the flux of m1;
\* it is strictly less when m2 is at most the zeropoint 25.0, and it is the
\* floor of one electron when m1 is at least the zeropoint
C19_DecreasingToZeropoint ==
    unit.op = "_magnitude_to_flux"
    => \A m2 \in UnitMagnitudes :
          RLt(unit.args.magnitude, m2)
          => /\ RLe(MagnitudeToFlux(m2), unit.flux)
             /\ RLe(m2, R(25)) => RLt(MagnitudeToFlux(m2), unit.flux)
             /\ RLe(R(25), unit.args.magnitude) => MagnitudeToFlux(m2) = R(1)

\* a magnitude brighter than the zeropoint was converted, and a fainter
\* magnitude below the zeropoint gives a smaller flux above the floor
C19_Witness ==
    /\ unit.op = "_magnitude_to_flux"
    /\ unit.args.magnitude = R(20)
    /\ RLt(MagnitudeToFlux(Rat(81, 4)), unit.flux)
    /\ RLt(R(1), MagnitudeToFlux(Rat(81, 4)))

\* C20: for every magnitude m the flux is at least 1.0 electron, and for
\* m <= 25.0 it equals 10 ** ((25.0 - m) / 2.5)
C20_FluxFloor ==
    unit.op = "_magnitude_to_flux"
    => /\ RLe(R(1), unit.flux)
       /\ RLe(unit.args.magnitude, R(25))
          => unit.flux = Pow10Tenths(Trunc(RMul(R(4), RSub(R(25), unit.args.magnitude))))

\* magnitude 20.0 was converted to 10 ** 2 electrons
C20_Witness ==
    /\ unit.op = "_magnitude_to_flux"
    /\ unit.args.magnitude = R(20)
    /\ unit.flux = R(100)

\* the paths of the generate_fits_file calls completed since the running
\* generate_batch call was entered, in the order they completed
BatchSucceeded ==
    [k \in 1 .. Len(runs) - batch.base |-> runs[batch.base + k].path]

\* the indices 0 .. n-1 in order
Indices(n) == [k \in 1 .. n |-> k - 1]

\* C12: generate_batch(count) attempts the indices 0 .. count-1 in order,
\* failed ones included; its list holds exactly the paths of the images
\* generated so far, in index order, and is what it returns after the last
\* index, so the returned list is no longer than count
C12_BatchContinues ==
    [][batch.on =>
        /\ batch.tried = Indices(Len(batch.tried))
        /\ Len(batch.tried) = batch.i + (IF pc = "batch_iter" THEN 0 ELSE 1)
        /\ batch.generated = BatchSucceeded
        /\ \A k \in 1 .. Len(runs) - batch.base :
              /\ runs[batch.base + k].bidx \in 0 .. batch.i
              /\ k > 1 => runs[batch.base + k - 1].bidx < runs[batch.base + k].bidx
        /\ ~batch'.on =>
              /\ batch.tried = Indices(batch.count)
              /\ returned' = BatchSucceeded
              /\ Len(returned') <= batch.count]_vars

\* a batch of two returned one path, that of its second image: the first
\* image failed and the loop went on
C12_Witness ==
    /\ pc = "idle" /\ ~batch.on
    /\ Len(returned) = 1 /\ returned[1][2] = 2
    /\ Len(runs) > 0 /\ runs[Len(runs)].bidx = 1

\* C13: an exception of a stage ends the call with no stage run again: a
\* direct caller receives that exception, generate_batch goes to the end of
\* its loop body; generate_batch calls generate_fits_file once per index
C13_NoRetry ==
    [][/\ pc = "raise" =>
            /\ exc # "none"
            /\ UNCHANGED <<rng, ndraws, nimages, image, stages, draws, files, runs>>
            /\ IF batch.on THEN pc' = "batch_next" /\ batch' = batch
               ELSE pc' = "idle" /\ raised' = exc /\ returned' = returned
       /\ batch.on =>
            /\ \A j, k \in 1 .. Len(batch.tried) : j # k => batch.tried[j] # batch.tried[k]
            /\ ~batch'.on => Len(batch.tried) = batch.count]_vars

\* a direct call failed after some stages had run and its caller has the
\* exception
C13_Witness ==
    /\ pc = "idle" /\ ~batch.on
    /\ raised # "none" /\ req.bidx = -1 /\ stages # << >>

\* C14: with exposure_time = 0 and cosmic_ray_rate >= 0 the cosmic-ray stage
\* injects 0 hits and leaves every canvas pixel unchanged
C14_ZeroExposureNoHits ==
    [][(/\ pc = "cosmic"
        /\ req.args.exposure_time = R(0)
        /\ RLe(R(0), config.cosmic_ray_rate))
       => /\ todo' = 0
          /\ pc' = "noise"
          /\ image' = image
          /\ stages' = Append(stages, "cosmic")]_vars

\* the cosmic-ray stage of a call with exposure_time = 0 has run, under a
\* positive rate
C14_Witness ==
    /\ pc = "noise"
    /\ req.args.exposure_time = R(0)
    /\ RLt(R(0), config.cosmic_ray_rate)
    /\ stages # << >> /\ stages[Len(stages)] = "cosmic"

\* the pixel <<row, column>> step i of the track of the cosmic-ray event e
\* falls on: (x + trunc(i cos a), y + trunc(i sin a))
StepPixel(e, i) ==
    <<e.y[1] + Trunc(Rat(i * SinTrack(e.angle), 1000)),
      e.x[1] + Trunc(Rat(i * CosTrack(e.angle), 1000))>>

\* the energy the steps i .. length-1 of event e leave on pixel p
RECURSIVE StepsOn(_, _, _)
StepsOn(e, p, i) ==
    IF i >= e.length THEN R(0)
    ELSE RAdd(IF StepPixel(e, i) = p
              THEN RMul(e.energy, RSub(R(1), Rat(i, e.length))) ELSE R(0),
              StepsOn(e, p, i + 1))

\* C15: the track of a hit adds energy * (1 - i/L) to the pixel of each of
\* its steps i in 0 .. L-1 that is inside the canvas; a step outside the
\* canvas changes no pixel and the steps after it are processed as usual
C15_TrackDeposits ==
    [][pc = "cr_add" =>
        /\ image'.shape = image.shape
        /\ DOMAIN image'.px = DOMAIN image.px
        /\ \A p \in DOMAIN image.px :
              image'.px[p] = RAdd(image.px[p], StepsOn(entry, p, 0))]_vars

\* a track was laid that has a step inside the canvas after its start and a
\* step at a negative coordinate
C15_Witness ==
    /\ entry.kind = "cr" /\ pc \in {"cr_draw", "noise"}
    /\ \E i \in 1 .. entry.length - 1 : StepPixel(entry, i) \in DOMAIN image.px
    /\ \E i \in 1 .. entry.length - 1 :
          StepPixel(entry, i)[1] < 0 \/ StepPixel(entry, i)[2] < 0

\* star density, galaxy density and cosmic-ray rate are all zero
ZeroRates ==
    /\ config.star_density = R(0)
    /\ config.galaxy_density = R(0)
    /\ config.cosmic_ray_rate = R(0)

\* the canvas the sky-background stage of the running call produced: the
\* sky drawn on zeros, from the state of the random source after the
\* draws for the request's defaults
SkyCanvas ==
    LET nra  == IF req.args.ra.some THEN 0 ELSE 1
        ndec == IF req.args.dec.some THEN 0 ELSE 1
        nmet == IF req.args.meta THEN 0 ELSE 3
    IN  AddSky(Zeros(config.image_size[1], config.image_size[2]),
               config.sky_background, Adv(req.rng0, nra + ndec + nmet))

\* C16: with star density, galaxy density and cosmic-ray rate all zero, the
\* star, galaxy and cosmic-ray stages process no source and leave the canvas
\* unchanged, so the canvas entering the read-noise stage is the canvas of
\* the sky-background stage
C16_EmptyStagesKeepCanvas ==
    [][ZeroRates =>
        /\ pc \in {"stars", "galaxies", "cosmic"} => (image' = image /\ todo' = 0)
        /\ pc \notin {"star_draw", "star_add", "galaxy_draw", "galaxy_add",
                       "cr_draw", "cr_add"}
        /\ pc = "noise" => image = SkyCanvas]_vars

\* a call with a positive exposure time is about to add the read noise to
\* a canvas holding sky counts, under zero densities and rate
C16_Witness ==
    /\ ZeroRates /\ pc = "noise"
    /\ RLt(R(0), req.args.exposure_time)
    /\ \E p \in DOMAIN image.px : RLt(R(0), image.px[p])

\* C17: the frame _create_wcs built has crval = (ra, dec) of the target,
\* crpix = (width/2, height/2), cdelt = (-pixel_scale/3600,
\* +pixel_scale/3600), and tangent-plane axis types in degrees
C17_WcsFrame ==
    wcs # NoWcs =>
        /\ wcs.crval = <<req.ra.v, req.dec.v>>
        /\ req.args.ra.some => wcs.crval[1] = req.args.ra.v
        /\ req.args.dec.some => wcs.crval[2] = req.args.dec.v
        /\ wcs.crpix = <<Rat(config.image_size[2], 2), Rat(config.image_size[1], 2)>>
        /\ wcs.cdelt[1] = RNeg(RDiv(config.pixel_scale, R(3600)))
        /\ wcs.cdelt[2] = RDiv(config.pixel_scale, R(3600))
        /\ wcs.ctype = <<"RA---TAN", "DEC--TAN">>
        /\ wcs.cunit = <<"deg", "deg">>

\* a frame was built for a given target on a canvas that is wider than high
C17_Witness ==
    /\ wcs # NoWcs
    /\ req.args.ra.some /\ req.args.dec.some
    /\ config.image_size[2] > config.image_size[1]
    /\ RLt(wcs.cdelt[1], R(0))

\* C18: building the frame draws nothing from the random source, leaves
\* the canvas and the configuration as they were, and its result is
\* determined by the target, the canvas size and the pixel scale
C18_WcsPure ==
    [][pc = "wcs" =>
        /\ UNCHANGED <<rng, ndraws, draws, image, config, req>>
        /\ wcs' = CreateWcs(req.ra.v, req.dec.v, image.shape[2], image.shape[1],
                            [pixel_scale |-> config.pixel_scale])]_vars

\* the frame of a call has just been built, after draws of earlier stages
C18_Witness ==
    /\ pc = "header" /\ wcs # NoWcs
    /\ ndraws > req.before

\* C21: every generated star position is at least 50 px from each canvas
\* edge, and every generated galaxy position at least 100 px, whatever the
\* configured image size
C21_PositionsWithinMargin ==
    LET height == config.image_size[1]
        width  == config.image_size[2]
        margin == IF entry.kind = "star" THEN 50 ELSE 100
    IN  entry.kind \in {"star", "galaxy"} =>
            /\ RLe(R(margin), entry.x) /\ RLe(entry.x, R(width - margin))
            /\ RLe(R(margin), entry.y) /\ RLe(entry.y, R(height - margin))

\* the side of a square stamp: its cells are (0 .. side-1) x (0 .. side-1)
StampSide(stamp) == CHOOSE n \in 0 .. 64 : DOMAIN stamp = Cells(n)

\* the side is odd, at least extent and at most extent + 2, and the centre
\* index side // 2 has as many cells before it as after it
OddSideCovering(side, extent) ==
    /\ side % 2 = 1
    /\ RLe(extent, R(side)) /\ RLe(R(side), RAdd(extent, R(2)))
    /\ side \div 2 = side - 1 - (side \div 2)

\* C22: the stamp of every star and of every galaxy is square with an odd
\* side that is at least 6 sigma (6 r_eff) and exceeds it by at most 2, so
\* it has a centre pixel at index side // 2
C22_OddStampSide ==
    [][/\ pc = "star_add" =>
            OddSideCovering(StampSide(StarStamp(entry.flux, entry.fwhm)),
                            SixSigma(entry.fwhm))
       /\ pc = "galaxy_add" =>
            OddSideCovering(StampSide(GalaxyStamp(entry.flux, entry.r_eff,
                                entry.axis_ratio, entry.position_angle, entry.sersic_n)),
                            RMul(R(6), entry.r_eff))]_vars

\* a star whose int(6 sigma) + 1 is even was rendered: the side is one more
C22_Witness ==
    /\ entry.kind = "star" /\ pc \in {"star_draw", "galaxies"}
    /\ (Trunc(SixSigma(entry.fwhm)) + 1) % 2 = 0

\* C23: generate_fits_file and generate_batch leave the configuration as
\* it is: it changes only when a generator is constructed, and is then the
\* defaults updated with the file's values
C23_ConfigUnchanged ==
    [][/\ inst' = inst => config' = config
       /\ inst' > 0 => config' = LoadConfig(cfgFile)]_vars

\* a generator has completed a direct call and a batch image
C23_Witness ==
    /\ pc = "idle" /\ inst > 0
    /\ \E k \in 1 .. Len(runs) : runs[k].inst = inst /\ runs[k].bidx = -1
    /\ \E k \in 1 .. Len(runs) : runs[k].inst = inst /\ runs[k].bidx >= 0

\* C24: generate_batch attempts an upload only for the image it has just
\* generated and recorded, and only when upload was requested and a bucket
\* is configured; the attempt, failed or not, leaves the list of generated
\* paths, the files and the generator's state as they are, and the loop
\* goes on
C24_UploadIsSink ==
    [][/\ uploads' # uploads => pc = "upload"
       /\ pc = "upload" =>
            /\ batch.on /\ batch.upload /\ config.s3_bucket # "None"
            /\ batch.generated # << >>
            /\ batch.generated[Len(batch.generated)] = req.path
            /\ req.path \in DOMAIN files
            /\ uploads' = Append(uploads, uploads'[Len(uploads')])
            /\ uploads'[Len(uploads')].path = req.path
            /\ pc' = "batch_next"
            /\ UNCHANGED <<batch, rng, ndraws, nimages, config, seeded, image, files,
                           runs, exc, raised>>]_vars

\* a batch returned both of its images although the upload of the first
\* one failed
C24_Witness ==
    /\ pc = "idle" /\ ~batch.on
    /\ Len(returned) = 2
    /\ \E k \in 1 .. Len(uploads) : uploads[k].path = returned[1] /\ ~uploads[k].ok

\* the canvas pixels <<row, column>> under a stamp of the given side whose
\* top-left cell is at column x_start, row y_start
Overlap(shape, x_start, y_start, size) ==
    {p \in Pixels(shape) : /\ x_start <= p[2] /\ p[2] < x_start + size
                           /\ y_start <= p[1] /\ p[1] < y_start + size}

\* the guard of the slice addition
BoxAdds(b) == b.img_x_end > b.img_x_start /\ b.img_y_end > b.img_y_start

\* the canvas pixels and the stamp cells the slices of b select
BoxCanvasPixels(b) ==
    (b.img_y_start .. b.img_y_end - 1) \X (b.img_x_start .. b.img_x_end - 1)

BoxStampCells(b) ==
    (b.psf_y_start .. b.psf_y_end - 1) \X (b.psf_x_start .. b.psf_x_end - 1)

\* C25: for the same position, stamp side and canvas the star and the
\* galaxy compositor select the same canvas rectangle and the same stamp
\* rectangle, of equal height and width, and both skip the addition
\* exactly when the stamp does not intersect the canvas
C25_SameBoundaryHandling ==
    unit.op = "boundary" =>
        LET s == unit.star
            g == unit.galaxy
            a == unit.args
            over == Overlap(a.shape, s.x_start, s.y_start, a.size)
        IN  /\ s = g
            /\ s.psf_x_end - s.psf_x_start = s.img_x_end - s.img_x_start
            /\ s.psf_y_end - s.psf_y_start = s.img_y_end - s.img_y_start
            /\ BoxAdds(s) <=> over # {}
            /\ BoxAdds(g) <=> over # {}
            /\ BoxAdds(s) =>
                  /\ BoxCanvasPixels(s) = over
                  /\ BoxStampCells(s) =
                        {<<p[1] - s.y_start, p[2] - s.x_start>> : p \in over}
                  /\ BoxStampCells(s) \subseteq Cells(a.size)

\* a stamp lying across the left and top edges of the canvas was handled
C25_Witness ==
    /\ unit.op = "boundary"
    /\ unit.star.psf_x_start > 0 /\ unit.star.psf_y_start > 0
    /\ BoxAdds(unit.star) /\ BoxAdds(unit.galaxy)

\* C26: for every configured saturation_level and every pixel, the stored
\* unsigned 16-bit integer is the truncation of the clipped value: a pixel
\* clipped to saturation_level is stored as saturation_level
C26_NoWrapAround ==
    unit.op = "detector" =>
        \A p \in DOMAIN unit.stored.px :
            /\ unit.stored.px[p] = Trunc(unit.clipped.px[p])
            /\ unit.clipped.px[p] = R(unit.args.saturation_level)
                  => unit.stored.px[p] = unit.args.saturation_level

\* the configuration file does not set random_seed
NoConfiguredSeed == "random_seed" \notin DOMAIN cfgFile

\* C27: a generator constructed without a configured random_seed is seeded
\* with the fallback seed 42, so that two such generators start their draws
\* from the same state
C27_FallbackSeed ==
    (inst > 0 /\ NoConfiguredSeed) =>
        /\ seeded \in SeedStates(Some(42))
        /\ \A j, k \in 1 .. Len(runs) :
              (runs[j].before = runs[k].before) => (runs[j].rng0 = runs[k].rng0)

\* the statements of the stages between the canvas creation and the read
\* noise
BeforeNoise ==
    {"sky", "stars", "star_draw", "star_add", "galaxies", "galaxy_draw", "galaxy_add",
     "cosmic", "cr_draw", "cr_add"}

\* every deposit energy * (1 - i/length) of the cosmic-ray event e is
\* positive, with energy >= 1000 and length >= 1
PositiveDeposits(e) ==
    /\ RLe(R(1000), e.energy)
    /\ e.length >= 1
    /\ \A i \in 0 .. e.length - 1 :
          RLt(R(0), RMul(e.energy, RSub(R(1), Rat(i, e.length))))

\* no pixel of the canvas new is below its value in the canvas old
NoPixelLower(old, new) ==
    /\ new.shape = old.shape
    /\ \A p \in DOMAIN old.px : RLe(old.px[p], new.px[p])

\* C28: every step of the sky, star, galaxy and cosmic-ray stages leaves
\* each canvas pixel at least as large as it was; the flux of a source is
\* at least 1, and every deposit of a cosmic ray is positive
C28_StagesOnlyAdd ==
    [][(pc \in BeforeNoise) =>
        /\ NoPixelLower(image, image')
        /\ pc \in {"star_add", "galaxy_add"} => RLe(R(1), entry.flux)
        /\ pc = "cr_add" => PositiveDeposits(entry)]_vars

\* on a canvas without sky a cosmic ray has left its energy on a pixel
C28_Witness ==
    /\ entry.kind = "cr" /\ pc \in {"cr_draw", "noise"}
    /\ config.sky_background = R(0)
    /\ \E p \in DOMAIN image.px : RLe(entry.energy, image.px[p])

\* C29: every catalog entry has non-degenerate shape parameters: a star has
\* FWHM >= 1.0 and a stamp side >= 3; a galaxy has effective radius >= 1.0,
\* a stamp side >= 7, an axis ratio in [0.3, 1.0] and a Sersic index of 1
\* or 4; a cosmic ray has a track length >= 1 and starts inside the canvas
C29_NonDegenerateEntries ==
    /\ entry.kind = "star" =>
          /\ RLe(R(1), entry.fwhm)
          /\ StampSize(SixSigma(entry.fwhm)) >= 3
    /\ entry.kind = "galaxy" =>
          /\ RLe(R(1), entry.r_eff)
          /\ StampSize(RMul(R(6), entry.r_eff)) >= 7
          /\ RLe(Rat(3, 10), entry.axis_ratio) /\ RLe(entry.axis_ratio, R(1))
          /\ entry.sersic_n \in {1, 4}
    /\ entry.kind = "cr" =>
          /\ entry.length >= 1
          /\ <<entry.y[1], entry.x[1]>> \in Pixels(config.image_size)
          /\ entry.x[2] = 1 /\ entry.y[2] = 1

\* a star whose drawn FWHM was below 1.0 is in the catalog with FWHM 1.0
C29_Witness ==
    /\ entry.kind = "star" /\ pc = "star_add"
    /\ entry.fwhm = R(1)
    /\ StampSize(SixSigma(entry.fwhm)) = 3

\* the stages that precede the write, in order
StagesBeforeWrite == SubSeq(StageOrder, 1, Len(StageOrder) - 1)

\* every path of the sequence names a file on disk
AllWritten(paths, disk_files) ==
    \A k \in 1 .. Len(paths) : paths[k] \in DOMAIN disk_files

\* C30: a file is written only by the write step, after the detector
\* response, the WCS frame and the header were produced; a call that raises
\* writes no file and returns no path, and every path generate_batch
\* collects or returns names a file that was written
C30_WriteLast ==
    [][/\ files' # files =>
            /\ pc = "write"
            /\ stages = StagesBeforeWrite
            /\ wcs # NoWcs
            /\ DOMAIN files' = DOMAIN files \cup {req.path}
       /\ pc = "raise" =>
            /\ files' = files
            /\ stages # StageOrder
            /\ batch.on => batch'.generated = batch.generated
            /\ ~batch.on => returned' = << >>
       /\ AllWritten(returned', files')
       /\ AllWritten(batch'.generated, files')]_vars

\* a direct call has raised: its caller has no path and there is no file
\* at the output path
C30_Witness ==
    /\ pc = "idle" /\ raised # "none" /\ req.bidx = -1
    /\ returned = << >>
    /\ req.path \notin DOMAIN files
    /\ stages # << >>

============================================================================
